---- MODULE Spec2Model ----
(***************************************************************************)
(* The chat session of the ChatInterface component: the transcript         *)
(* (messages), the unsent text (inputMessage), the waiting flag            *)
(* (isLoading), the readiness flag (isServerAwake), the wake-up effect     *)
(* and the asynchronous handleSendMessage with its two suspension points   *)
(* (await fetch, await response.json()).                                   *)
(*                                                                         *)
(* A JavaScript string is a sequence of one-character strings, so that     *)
(* String.prototype.trim is computed and not assumed.  The state is the    *)
(* state committed by React: updates made inside one event handler or one  *)
(* promise continuation are applied before the next event is dispatched.   *)
(* The timestamp of a Message (new Date(), shown under the bubble) takes   *)
(* no part in any decision of the component and is left out of the record. *)
(***************************************************************************)
EXTENDS Integers, Sequences, FiniteSets, TLC

\* ---------------------------------------------------------------- bounds
\* number of accepted submissions explored
MaxTurns == 2

\* ------------------------------------------------------------- strings
WhiteSpace == {" ", "\t", "\n", "\r"}

EmptyString == <<>>

\* a typed text of blanks only
BlankText == <<" ", " ">>

\* a typed text with leading and trailing blanks around a visible character
PaddedText == <<" ", "a", " ">>

\* an answer of the service
AnswerSample == <<"o", "k">>

\* an answer of the service made of one blank
BlankAnswer == <<" ">>

RECURSIVE TrimStart(_)
TrimStart(s) ==
    IF s # <<>> /\ Head(s) \in WhiteSpace THEN TrimStart(Tail(s)) ELSE s

RECURSIVE TrimEnd(_)
TrimEnd(s) ==
    IF s # <<>> /\ s[Len(s)] \in WhiteSpace
    THEN TrimEnd(SubSeq(s, 1, Len(s) - 1))
    ELSE s

\* String.prototype.trim
Trim(s) == TrimEnd(TrimStart(s))

\* the three suggested questions
Suggestion1 ==
    <<"W","h","a","t"," ","k","i","n","d"," ","o","f"," ","b",
      "a","s","e"," ","l","a","y","e","r","s"," ","s","h","o",
      "u","l","d"," ","I"," ","b","r","i","n","g","?">>

Suggestion2 ==
    <<"D","o"," ","I"," ","n","e","e","d"," ","a"," ","r","a",
      "i","n"," ","c","o","a","t","?">>

Suggestion3 ==
    <<"W","h","a","t"," ","c","a","n"," ","h","e","l","p"," ",
      "m","e"," ","p","r","e","p","a","r","e"," ","f","o","r",
      " ","m","y"," ","c","o","u","r","s","e","?">>

Suggestions == <<Suggestion1, Suggestion2, Suggestion3>>

\* text of the assistant message for a 2xx body without a usable answer
FallbackText ==
    <<"S","o","r","r","y",","," ","I"," ","c","o","u","l","d",
      " ","n","o","t"," ","p","r","o","c","e","s","s"," ","y",
      "o","u","r"," ","r","e","q","u","e","s","t",".">>

\* text of the assistant message appended by the catch block
ErrorText ==
    <<"S","o","r","r","y",","," ","t","h","e","r","e"," ","w",
      "a","s"," ","a","n"," ","e","r","r","o","r"," ","p","r",
      "o","c","e","s","s","i","n","g"," ","y","o","u","r"," ",
      "r","e","q","u","e","s","t","."," ","P","l","e","a","s",
      "e"," ","t","r","y"," ","a","g","a","i","n",".">>

\* what the user can type into the TextField
TypedInputs == {EmptyString, BlankText, PaddedText}

\* the strings the service can return as the answer
Answers == {EmptyString, BlankAnswer, AnswerSample}

\* ---------------------------------------------------------- JSON values
JsonUndefined == [type |-> "undefined"]

JsonNull == [type |-> "null"]

JsonNumber == [type |-> "number"]

JsonString(s) == [type |-> "string", value |-> s]

JsonObject(a) == [type |-> "object", answer |-> a]

\* values the answer property of a parsed object can have
AnswerValues ==
    {JsonUndefined, JsonNull} \cup {JsonString(s) : s \in Answers}

\* values response.json() can resolve to
Bodies == {JsonNull, JsonNumber} \cup {JsonObject(a) : a \in AnswerValues}

\* optional chaining (data?.answer) never throws
ThrowsOnAnswer_Never(data) == FALSE

\* data.answer throws a TypeError when data is null
ThrowsOnAnswer(data) == data.type = "null"

\* data.answer
GetAnswer(data) == IF data.type = "object" THEN data.answer ELSE JsonUndefined

\* JavaScript truthiness of the values above
Truthy(v) == v.type = "string" /\ v.value # <<>>

\* the answer dropped: the fallback notice whatever the body
AnswerText_AlwaysFallback(data) == FallbackText

\* data.answer || 'Sorry, I could not process your request.'
AnswerText(data) ==
    IF Truthy(GetAnswer(data)) THEN GetAnswer(data).value ELSE FallbackText

\* ------------------------------------------------------------ messages
Message(t, s) == [text |-> t, sender |-> s]

\* ---------------------------------------------------------------- state
VARIABLES
    messages,       \* useState<Message[]>([])
    inputMessage,   \* useState('')
    isLoading,      \* useState(false)
    isServerAwake,  \* useState(false)
    pingPc,         \* position of wakeUpServer: "start", "fetch", "done"
    pings,          \* number of GET /ping requests issued
    pingLog,        \* what wakeUpServer has written with console.log
    tasks,          \* running handleSendMessage calls: [question, pc]
    sent,           \* bodies of the POST /chat requests issued, in order
    lastCall        \* outcome of the latest handleSendMessage activity

vars == <<messages, inputMessage, isLoading, isServerAwake, pingPc, pings,
          pingLog, tasks, sent, lastCall>>

Init ==
    /\ messages = <<>>
    /\ inputMessage = EmptyString
    /\ isLoading = FALSE
    /\ isServerAwake = FALSE
    /\ pingPc = "start"
    /\ pings = 0
    /\ pingLog = "none"
    /\ tasks = <<>>
    /\ sent = <<>>
    /\ lastCall = "none"

Mounted == pingPc # "start"

RemoveAt(s, i) == SubSeq(s, 1, i - 1) \o SubSeq(s, i + 1, Len(s))

\* -------------------------------------------------------- wakeUpServer
\* the mount effect: wakeUpServer() issues GET /ping
WakeUpServer ==
    /\ pingPc = "start"
    /\ pingPc' = "fetch"
    /\ pings' = pings + 1
    /\ UNCHANGED pingLog
    /\ UNCHANGED <<messages, inputMessage, isLoading, isServerAwake, tasks,
                   sent, lastCall>>

\* the readiness flag set without the response.ok test
PingResolve_IgnoresOk(ok) ==
    /\ pingPc = "fetch"
    /\ pingPc' = "done"
    /\ isServerAwake' = TRUE
    /\ pingLog' = IF ok THEN "Server is awake" ELSE pingLog
    /\ UNCHANGED <<messages, inputMessage, isLoading, pings, tasks, sent,
                   lastCall>>

\* fetch(/ping) resolves; ok is response.ok
PingResolve(ok) ==
    /\ pingPc = "fetch"
    /\ pingPc' = "done"
    /\ isServerAwake' = IF ok THEN TRUE ELSE isServerAwake
    /\ pingLog' = IF ok THEN "Server is awake" ELSE pingLog
    /\ UNCHANGED <<messages, inputMessage, isLoading, pings, tasks, sent,
                   lastCall>>

\* fetch(/ping) rejects; the catch block only logs
PingReject ==
    /\ pingPc = "fetch"
    /\ pingPc' = "done"
    /\ pingLog' = "Server is starting up, might take a minute..."
    /\ UNCHANGED <<messages, inputMessage, isLoading, isServerAwake, pings,
                   tasks, sent, lastCall>>

\* ------------------------------------------------------------- editing
\* TextField onChange; the field is disabled while isLoading
OnChange(s) ==
    /\ Mounted
    /\ ~isLoading
    /\ inputMessage' = s
    /\ UNCHANGED <<messages, isLoading, isServerAwake, pingPc, pings, pingLog,
                   tasks, sent, lastCall>>

\* a suggestion Button that also puts its question into the transcript
SuggestionClick_AlsoAppends(i) ==
    /\ Mounted
    /\ inputMessage' = Suggestions[i]
    /\ messages' = Append(messages, Message(Suggestions[i], "user"))
    /\ UNCHANGED <<isLoading, isServerAwake, pingPc, pings, pingLog, tasks,
                   sent, lastCall>>

\* onClick of the i-th suggestion Button; the buttons are never disabled
SuggestionClick(i) ==
    /\ Mounted
    /\ inputMessage' = Suggestions[i]
    /\ UNCHANGED <<messages, isLoading, isServerAwake, pingPc, pings, pingLog,
                   tasks, sent, lastCall>>

\* --------------------------------------------------- handleSendMessage
\* the early return without the isLoading test
SubmitRejected_NoLoadingCheck == Trim(inputMessage) = <<>>

\* the early return testing the text without trimming it
SubmitRejected_NoTrim == inputMessage = <<>> \/ isLoading

\* the early return also taken while the server is not known to be awake
SubmitRejected_RequiresAwake ==
    Trim(inputMessage) = <<>> \/ isLoading \/ ~isServerAwake

\* if (!inputMessage.trim() || isLoading) return;
SubmitRejected == Trim(inputMessage) = <<>> \/ isLoading

\* the user message built from the trimmed text
NewMessage_Trimmed == Message(Trim(inputMessage), "user")

\* const newMessage = { text: inputMessage, sender: 'user', ... }
NewMessage == Message(inputMessage, "user")

\* the body built from the state after setInputMessage('')
RequestBody_AfterClear == [question |-> EmptyString]

\* body: JSON.stringify({ question: inputMessage })
RequestBody == [question |-> inputMessage]

\* handleSendMessage up to its first await
HandleSendMessage ==
    /\ Mounted
    /\ IF SubmitRejected
       THEN /\ lastCall' = "ignored"
            /\ UNCHANGED <<messages, inputMessage, isLoading, tasks, sent>>
       ELSE /\ Len(sent) < MaxTurns
            /\ messages' = Append(messages, NewMessage)
            /\ inputMessage' = EmptyString
            /\ isLoading' = TRUE
            /\ sent' = Append(sent, RequestBody)
            /\ tasks' = Append(tasks, [question |-> RequestBody.question,
                                       pc |-> "fetch"])
            /\ lastCall' = "accepted"
    /\ UNCHANGED <<isServerAwake, pingPc, pings, pingLog>>

\* the assistant message built after response.json()
AiResponse(data) == Message(AnswerText(data), "ai")

\* the catch block reusing the fallback notice
ErrorMessage_Fallback == Message(FallbackText, "ai")

\* the assistant message built in the catch block
ErrorMessage == Message(ErrorText, "ai")

\* how the promise returned by handleSendMessage settles after the catch
CatchOutcome == "resolved"

\* the reply appended to the messages the call closed over, not to prev
Succeed_StaleClosure(i, data) ==
    /\ messages' = Append(SubSeq(messages, 1, Len(messages) - 1),
                           AiResponse(data))
    /\ isLoading' = FALSE
    /\ tasks' = RemoveAt(tasks, i)
    /\ lastCall' = "resolved"
    /\ UNCHANGED <<inputMessage, isServerAwake, pingPc, pings, pingLog, sent>>

\* the input cleared when the reply arrives
Succeed_ClearsInput(i, data) ==
    /\ messages' = Append(messages, AiResponse(data))
    /\ isLoading' = FALSE
    /\ inputMessage' = EmptyString
    /\ tasks' = RemoveAt(tasks, i)
    /\ lastCall' = "resolved"
    /\ UNCHANGED <<isServerAwake, pingPc, pings, pingLog, sent>>

\* a try block whose success path returns before the flag is reset
Succeed_NoFinally(i, data) ==
    /\ messages' = Append(messages, AiResponse(data))
    /\ isLoading' = isLoading
    /\ tasks' = RemoveAt(tasks, i)
    /\ lastCall' = "resolved"
    /\ UNCHANGED <<inputMessage, isServerAwake, pingPc, pings, pingLog, sent>>

\* try block completed: setMessages(aiResponse); finally setIsLoading(false)
Succeed(i, data) ==
    /\ messages' = Append(messages, AiResponse(data))
    /\ isLoading' = FALSE
    /\ tasks' = RemoveAt(tasks, i)
    /\ lastCall' = "resolved"
    /\ UNCHANGED <<inputMessage, isServerAwake, pingPc, pings, pingLog, sent>>

\* a catch block that logs the error without appending a message
Fail_NoAppend(i) ==
    /\ messages' = messages
    /\ isLoading' = FALSE
    /\ tasks' = RemoveAt(tasks, i)
    /\ lastCall' = CatchOutcome
    /\ UNCHANGED <<inputMessage, isServerAwake, pingPc, pings, pingLog, sent>>

\* a catch block with no finally: isLoading is not reset on failure
Fail_NoFinally(i) ==
    /\ messages' = Append(messages, ErrorMessage)
    /\ isLoading' = isLoading
    /\ tasks' = RemoveAt(tasks, i)
    /\ lastCall' = CatchOutcome
    /\ UNCHANGED <<inputMessage, isServerAwake, pingPc, pings, pingLog, sent>>

\* a catch block that sends the question again instead of giving up
Fail_Retries(i) ==
    /\ sent' = Append(sent, [question |-> tasks[i].question])
    /\ tasks' = [tasks EXCEPT ![i].pc = "fetch"]
    /\ lastCall' = lastCall
    /\ UNCHANGED <<messages, inputMessage, isLoading, isServerAwake, pingPc,
                   pings, pingLog>>

\* catch block: setMessages(errorMessage); finally setIsLoading(false)
Fail(i) ==
    /\ messages' = Append(messages, ErrorMessage)
    /\ isLoading' = FALSE
    /\ tasks' = RemoveAt(tasks, i)
    /\ lastCall' = CatchOutcome
    /\ UNCHANGED <<inputMessage, isServerAwake, pingPc, pings, pingLog, sent>>

\* fetch(/chat) resolves with a 2xx status: on to await response.json()
FetchOk(i) ==
    /\ i \in 1..Len(tasks)
    /\ tasks[i].pc = "fetch"
    /\ tasks' = [tasks EXCEPT ![i].pc = "json"]
    /\ UNCHANGED <<messages, inputMessage, isLoading, isServerAwake, pingPc,
                   pings, pingLog, sent, lastCall>>

\* fetch(/chat) resolves with a non-2xx status: throw new Error(...)
FetchNotOk(i) ==
    /\ i \in 1..Len(tasks)
    /\ tasks[i].pc = "fetch"
    /\ Fail(i)

\* fetch(/chat) rejects (network failure)
FetchReject(i) ==
    /\ i \in 1..Len(tasks)
    /\ tasks[i].pc = "fetch"
    /\ Fail(i)

\* response.json() resolves with the parsed body
JsonResolve(i, data) ==
    /\ i \in 1..Len(tasks)
    /\ tasks[i].pc = "json"
    /\ IF ThrowsOnAnswer(data) THEN Fail(i) ELSE Succeed(i, data)

\* response.json() rejects: the body is not JSON
JsonReject(i) ==
    /\ i \in 1..Len(tasks)
    /\ tasks[i].pc = "json"
    /\ Fail(i)

\* ------------------------------------------------------- specification
Next ==
    \/ WakeUpServer
    \/ \E ok \in BOOLEAN : PingResolve(ok)
    \/ PingReject
    \/ \E s \in TypedInputs : OnChange(s)
    \/ \E i \in 1..Len(Suggestions) : SuggestionClick(i)
    \/ HandleSendMessage
    \/ \E i \in 1..Len(tasks) : FetchOk(i)
    \/ \E i \in 1..Len(tasks) : FetchNotOk(i)
    \/ \E i \in 1..Len(tasks) : FetchReject(i)
    \/ \E i \in 1..Len(tasks), data \in Bodies : JsonResolve(i, data)
    \/ \E i \in 1..Len(tasks) : JsonReject(i)

Spec == Init /\ [][Next]_vars

\* the request settles: any completion of either await of a running call
Settle ==
    \E i \in 1..Len(tasks) :
        \/ FetchOk(i)
        \/ FetchNotOk(i)
        \/ FetchReject(i)
        \/ JsonReject(i)
        \/ \E data \in Bodies : JsonResolve(i, data)

\* every issued request eventually settles
FairSpec == Spec /\ WF_vars(Settle)

\* ---------------------------------------------------------- properties
LastMessage == messages[Len(messages)]

\* C1: in every reachable state at most one POST /chat request is in flight
\* (issued and not yet settled).
C1_AtMostOneInFlight == Len(tasks) <= 1

\* a second request is in flight after the first one has settled
C1_Witness == Len(tasks) = 1 /\ Len(sent) = 2 /\ Len(messages) = 3

\* C2: if requests settle, every accepted submission is followed by exactly
\* one assistant message, and isLoading becomes false again: a waiting
\* session leads to one that is not waiting and whose transcript ends with
\* an assistant message; while the session stays waiting the transcript
\* does not change; and the step that ends the waiting appends exactly one
\* message, an assistant message.
C2_ExactlyOneReply ==
    /\ isLoading ~> (~isLoading /\ messages # <<>> /\ LastMessage.sender = "ai")
    /\ [][(isLoading /\ isLoading') => messages' = messages]_vars
    /\ [][(isLoading /\ ~isLoading')
            => /\ Len(messages') = Len(messages) + 1
               /\ SubSeq(messages', 1, Len(messages)) = messages
               /\ messages'[Len(messages')].sender = "ai"
               /\ LastMessage.sender = "user"]_vars

\* the first submission has been answered
C2_Witness ==
    /\ ~isLoading
    /\ lastCall = "resolved"
    /\ Len(messages) = 2
    /\ messages[1].sender = "user"
    /\ messages[2].sender = "ai"

\* C3: whenever isLoading is false the transcript is empty or ends with an
\* assistant message.
C3_NoDanglingUserMessage ==
    ~isLoading => (messages = <<>> \/ LastMessage.sender = "ai")

\* two complete exchanges, nothing outstanding
C3_Witness ==
    /\ ~isLoading
    /\ Len(messages) = 4
    /\ LastMessage.sender = "ai"
    /\ tasks = <<>>

\* C4: handleSendMessage called while isLoading is true changes nothing of
\* the session: no transcript change, no request issued or queued, and
\* inputMessage and isLoading keep their values.
C4_SubmitWhileLoadingIsNoOp ==
    [][(HandleSendMessage /\ isLoading)
          => UNCHANGED <<messages, inputMessage, isLoading, tasks, sent>>]_vars

\* a call was ignored while a reply was outstanding and a text was pending
C4_Witness ==
    /\ isLoading
    /\ lastCall = "ignored"
    /\ Trim(inputMessage) # <<>>
    /\ Len(tasks) = 1

\* C5: handleSendMessage called with an empty or whitespace-only
\* inputMessage does not change the transcript, issues no request and does
\* not raise isLoading; no user message of the transcript has an empty or
\* whitespace-only text.
C5_BlankIsNeverSubmitted ==
    /\ [][(HandleSendMessage /\ Trim(inputMessage) = <<>>)
            => /\ UNCHANGED <<messages, tasks, sent, isLoading>>
               /\ (~isLoading => ~isLoading')]_vars
    /\ [](\A k \in 1..Len(messages) :
            messages[k].sender = "user" => Trim(messages[k].text) # <<>>)

\* a whitespace-only text was submitted in Idle and ignored
C5_Witness ==
    /\ ~isLoading
    /\ lastCall = "ignored"
    /\ inputMessage # <<>>
    /\ Trim(inputMessage) = <<>>

\* C6: with isLoading false and a non-blank inputMessage, handleSendMessage
\* in one step appends one user message with the untrimmed text, clears
\* inputMessage, sets isLoading and issues exactly one POST /chat request.
C6_AcceptedSubmit ==
    [][(HandleSendMessage /\ ~isLoading /\ Trim(inputMessage) # <<>>)
          => /\ messages' = Append(messages, Message(inputMessage, "user"))
             /\ inputMessage' = <<>>
             /\ isLoading'
             /\ sent' = Append(sent, [question |-> inputMessage])
             /\ Len(tasks') = Len(tasks) + 1]_vars

\* a padded text has just been accepted
C6_Witness ==
    /\ lastCall = "accepted"
    /\ isLoading
    /\ inputMessage = <<>>
    /\ Len(tasks) = 1
    /\ messages # <<>>
    /\ LastMessage = Message(PaddedText, "user")

\* the body { answer: s } for a string s
HasStringAnswer(data) == data.type = "object" /\ data.answer.type = "string"

\* C7 as stated: a 2xx body with a string answer, whatever the string, makes
\* the appended assistant message carry exactly that string.
C7_AnyAnswerIsShown ==
    [][\A data \in Bodies :
          (HasStringAnswer(data) /\ \E i \in 1..Len(tasks) : JsonResolve(i, data))
              => messages' = Append(messages, Message(data.answer.value, "ai"))]_vars

\* C7 amended: a 2xx body with a non-empty string answer makes the single
\* appended assistant message carry exactly that string.
C7_NonEmptyAnswerIsShown ==
    [][\A data \in Bodies :
          (/\ HasStringAnswer(data)
           /\ data.answer.value # <<>>
           /\ \E i \in 1..Len(tasks) : JsonResolve(i, data))
              => messages' = Append(messages, Message(data.answer.value, "ai"))]_vars

\* the service's answer is the last message of the transcript
C7_Witness ==
    /\ ~isLoading
    /\ messages # <<>>
    /\ LastMessage.sender = "ai"
    /\ LastMessage.text \in Answers \ {<<>>}

\* a body without a usable answer: no answer property, or a null or empty one
LacksAnswer(data) == ~Truthy(GetAnswer(data))

\* C8 as stated: every 2xx response without an answer, an unparseable body
\* included, appends the fallback notice, which is not the transport notice.
C8_EveryOtherBodyFallsBack ==
    [][(\E i \in 1..Len(tasks) :
            \/ JsonReject(i)
            \/ \E data \in Bodies : LacksAnswer(data) /\ JsonResolve(i, data))
          => /\ messages' = Append(messages, Message(FallbackText, "ai"))
             /\ FallbackText # ErrorText]_vars

\* C8 amended: a 2xx body that parses to a value other than null and has no
\* answer property, or a null or empty one, appends the fallback notice,
\* which is not the transport notice; an unparseable body and the body null
\* append the transport notice.
C8_ParsedBodyWithoutAnswerFallsBack ==
    [][/\ (\E i \in 1..Len(tasks) :
              \E data \in Bodies :
                  /\ data # JsonNull
                  /\ LacksAnswer(data)
                  /\ JsonResolve(i, data))
            => /\ messages' = Append(messages, Message(FallbackText, "ai"))
               /\ FallbackText # ErrorText
       /\ (\E i \in 1..Len(tasks) : JsonReject(i) \/ JsonResolve(i, JsonNull))
            => messages' = Append(messages, Message(ErrorText, "ai"))]_vars

\* the fallback notice is the last message of the transcript
C8_Witness ==
    /\ ~isLoading
    /\ lastCall = "resolved"
    /\ messages # <<>>
    /\ LastMessage = Message(FallbackText, "ai")

\* C9: a network failure or a non-2xx status of the chat request appends
\* exactly the transport notice, the promise of handleSendMessage is not
\* rejected, and isLoading is false afterwards.
C9_TransportFailure ==
    [][(\E i \in 1..Len(tasks) : FetchNotOk(i) \/ FetchReject(i))
          => /\ messages' = Append(messages, Message(ErrorText, "ai"))
             /\ ~isLoading'
             /\ tasks' = <<>>
             /\ lastCall' = "resolved"]_vars

\* the transport notice is the last message of the transcript
C9_Witness ==
    /\ ~isLoading
    /\ lastCall = "resolved"
    /\ messages # <<>>
    /\ LastMessage = Message(ErrorText, "ai")

\* handleSendMessage accepting the pending text
AcceptedSubmit == HandleSendMessage /\ lastCall' = "accepted"

\* C10: no outcome is fatal.  If requests settle, the session is in Idle
\* again and again; every settling step, whatever the outcome, ends in Idle;
\* and in Idle, whatever the probe did, a suggestion can be picked and a
\* non-blank pending text can be submitted and is accepted.
C10_NoErrorIsFatal ==
    /\ []<>(~isLoading)
    /\ [][(\E i \in 1..Len(tasks) :
              \/ FetchNotOk(i) \/ FetchReject(i) \/ JsonReject(i)
              \/ \E data \in Bodies : JsonResolve(i, data))
            => ~isLoading']_vars
    /\ [](Mounted => ENABLED SuggestionClick(1))
    /\ []((/\ Mounted
           /\ ~isLoading
           /\ Trim(inputMessage) # <<>>
           /\ Len(sent) < MaxTurns) => ENABLED AcceptedSubmit)

\* a second cycle has started after a failed request and a failed probe
C10_Witness ==
    /\ isLoading
    /\ lastCall = "accepted"
    /\ Len(sent) = 2
    /\ Len(messages) = 3
    /\ messages[2] = Message(ErrorText, "ai")
    /\ pingPc = "done"
    /\ ~isServerAwake

\* a step of the readiness probe: its issue or its completion
ProbeStep == WakeUpServer \/ PingReject \/ \E ok \in BOOLEAN : PingResolve(ok)

\* C11: isServerAwake is false until the probe completes; it changes only in
\* the step in which the probe completes with a 2xx response, and only to
\* true; once the probe has completed without a 2xx response isServerAwake
\* stays false; GET /ping is issued at most once.
C11_ReadyOnlyBySuccessfulProbe ==
    /\ [](pingPc # "done" => ~isServerAwake)
    /\ [][(isServerAwake' # isServerAwake)
            => /\ pingPc = "fetch"
               /\ pingPc' = "done"
               /\ pingLog' = "Server is awake"
               /\ isServerAwake']_vars
    /\ [][(pingPc = "done" /\ ~isServerAwake)
            => (~isServerAwake' /\ pingPc' = "done" /\ pings' = pings)]_vars
    /\ [][pings' # pings => (pingPc = "start" /\ pings = 0)]_vars
    /\ [](pings <= 1)

\* the probe has failed by a network error and an exchange has completed
\* since, the flag still false
C11_Witness ==
    /\ pingPc = "done"
    /\ pingLog = "Server is starting up, might take a minute..."
    /\ ~isServerAwake
    /\ pings = 1
    /\ Len(messages) = 2
    /\ ~isLoading

\* C12: the probe and the submission flow do not interfere.  A step of the
\* probe leaves messages, inputMessage, isLoading and the requests alone;
\* and what handleSendMessage does is decided by inputMessage and isLoading
\* alone, whatever isServerAwake is: it is ignored exactly when the text is
\* blank or a reply is outstanding, and otherwise appends the pending text.
C12_ProbeIndependentOfSubmission ==
    /\ [][ProbeStep
            => UNCHANGED <<messages, inputMessage, isLoading, tasks, sent,
                           lastCall>>]_vars
    /\ [][HandleSendMessage
            => IF Trim(inputMessage) = <<>> \/ isLoading
               THEN lastCall' = "ignored" /\ messages' = messages
               ELSE /\ lastCall' = "accepted"
                    /\ messages' = Append(messages, Message(inputMessage, "user"))
                    /\ isServerAwake' = isServerAwake]_vars

\* a question was accepted while the probe was still in flight, the server
\* not known to be awake
C12_Witness ==
    /\ pingPc = "fetch"
    /\ ~isServerAwake
    /\ isLoading
    /\ lastCall = "accepted"
    /\ Len(tasks) = 1

\* the user messages of the transcript, in order
UserMessages == SelectSeq(messages, LAMBDA msg : msg.sender = "user")

\* C13: no request is retried.  The number of POST /chat requests issued
\* equals the number of user messages of the transcript, and a request is
\* issued only by an accepted handleSendMessage, one at a time.
C13_NoAutomaticRetry ==
    /\ [](Len(sent) = Len(UserMessages))
    /\ [][sent' # sent
            => /\ AcceptedSubmit
               /\ Len(sent') = Len(sent) + 1
               /\ ~isLoading]_vars

\* a request has failed, the user has asked again, and two requests were
\* issued in all
C13_Witness ==
    /\ Len(sent) = 2
    /\ Len(messages) = 4
    /\ messages[2] = Message(ErrorText, "ai")
    /\ tasks = <<>>

\* C14: the transcript is append-only.  In every step the transcript is
\* unchanged or is the previous one with one message appended.
C14_AppendOnly ==
    [][\/ messages' = messages
       \/ /\ Len(messages') = Len(messages) + 1
          /\ SubSeq(messages', 1, Len(messages)) = messages]_vars

\* a transcript of two exchanges, the second on a suggested question
C14_Witness ==
    /\ Len(messages) = 4
    /\ messages[1] = Message(PaddedText, "user")
    /\ messages[3] = Message(Suggestion2, "user")
    /\ messages[4].sender = "ai"

\* C15: the question of each POST /chat request is the untrimmed
\* inputMessage of the moment of submission and the text of the user message
\* appended by the same call, although inputMessage is cleared before the
\* request is sent.
C15_QuestionIsPendingText ==
    /\ [][AcceptedSubmit
            => /\ sent'[Len(sent')] = [question |-> inputMessage]
               /\ tasks'[Len(tasks')].question = inputMessage
               /\ messages'[Len(messages')].text = inputMessage
               /\ inputMessage' = <<>>]_vars
    /\ [](/\ Len(sent) = Len(UserMessages)
          /\ \A k \in 1..Len(sent) : sent[k].question = UserMessages[k].text)

\* the padded text is in flight as typed, the input already cleared
C15_Witness ==
    /\ isLoading
    /\ inputMessage = <<>>
    /\ sent = <<[question |-> PaddedText]>>
    /\ tasks = <<[question |-> PaddedText, pc |-> "fetch"]>>
    /\ messages = <<Message(PaddedText, "user")>>

\* setInputMessage called from the TextField or from a suggestion Button
SetInputStep ==
    \/ \E s \in TypedInputs : OnChange(s)
    \/ \E i \in 1..Len(Suggestions) : SuggestionClick(i)

\* C16: setting the pending text changes inputMessage only, also while a
\* reply is outstanding: messages, isLoading and isServerAwake keep their
\* values, no request is issued and no probe.
C16_SetInputChangesInputOnly ==
    [][SetInputStep
          => UNCHANGED <<messages, isLoading, isServerAwake, tasks, sent,
                         pingPc, pings>>]_vars

\* a suggestion was picked while the reply was outstanding
C16_Witness ==
    /\ isLoading
    /\ inputMessage = Suggestion3
    /\ Len(tasks) = 1
    /\ Len(messages) = 1

\* the sender the k-th message of an alternating transcript has
SenderAt(k) == IF k % 2 = 1 THEN "user" ELSE "ai"

\* C17: the transcript alternates user, ai, user, ai from its first message,
\* isLoading is true exactly when its length is odd, and the step that
\* appends an assistant message is the step that resets isLoading.
C17_AlternationAndParity ==
    /\ [](\A k \in 1..Len(messages) : messages[k].sender = SenderAt(k))
    /\ [](isLoading <=> Len(messages) % 2 = 1)
    /\ [][(Len(messages') = Len(messages) + 1
             /\ messages'[Len(messages')].sender = "ai")
            <=> (isLoading /\ ~isLoading')]_vars

\* the second question is outstanding after a fallback reply to the first
C17_Witness ==
    /\ isLoading
    /\ Len(messages) = 3
    /\ messages[2] = Message(FallbackText, "ai")
    /\ messages[3].sender = "user"

\* a running call returns: the step that removes it from the running calls
CompletionStep == Len(tasks') < Len(tasks)

\* C18: the completion of a chat request, whatever the outcome, changes
\* messages and isLoading only; a text put into inputMessage while the
\* request was outstanding is still there afterwards, and an accepted
\* handleSendMessage submits the text inputMessage then holds.
C18_CompletionKeepsPendingInput ==
    /\ [][CompletionStep
            => UNCHANGED <<inputMessage, isServerAwake, sent, pingPc, pings,
                           pingLog>>]_vars
    /\ [][(AcceptedSubmit /\ lastCall = "resolved")
            => messages' = Append(messages, Message(inputMessage, "user"))]_vars

\* the reply has arrived and the suggestion picked meanwhile is still pending
C18_Witness ==
    /\ ~isLoading
    /\ lastCall = "resolved"
    /\ inputMessage = Suggestion1
    /\ Len(messages) = 2
    /\ tasks = <<>>

====
